---- MODULE Spec2Model ----
(***************************************************************************)
(* Shipment aggregate and payment lifecycle of the envoyserver backend.   *)
(*                                                                         *)
(* The state is the `shipments` collection as Mongoose persists it (the    *)
(* schemas of models/Shipment.js decide which paths are stored and which   *)
(* values a save accepts) and the response of the last request.  Every     *)
(* action is one request handled from start to end: the controller, the    *)
(* service it calls, every save and the side effects that follow.          *)
(* `rates` is the rate configuration the ShipmentService instance read at  *)
(* construction; `call` is one call of a ShipmentService function, its     *)
(* arguments and, once made, its result.  `reqs` holds the payment         *)
(* requests that run await by await, for what happens between the saves    *)
(* of one request and between the steps of two.                            *)
(***************************************************************************)
EXTENDS Integers, Sequences, FiniteSets, TLC

VARIABLES db, res, rates, call, reqs

vars == <<db, res, rates, call, reqs>>

(***************************************************************************)
(* Bounds of the model.                                                    *)
(***************************************************************************)
MaxShipments == 1
MaxTimeline == 3

ShipmentIds == 1..MaxShipments
\* req.user on the optionalAuth routes: 0 is a guest request (no req.user).
NoUser == 0
Users == {1}
Requesters == {NoUser} \cup Users
\* The random part of a generated tracking number; 0 is "no trackingNumber".
NoTracking == 0
TrackingNumbers == {1}
\* shipment.cost is undefined on a shipment that was never costed (a costed
\* shipment has baseAmount > 0: every package weighs more than 0).
NoCost == [baseAmount |-> 0, insurance |-> 0, vat |-> 0, total |-> 0]
\* An optional request field that was not sent / a path holding undefined.
Undefined == "undefined"
NoAmount == -1

(***************************************************************************)
(* Schemas (models/Shipment.js, models/Notification.js).                   *)
(***************************************************************************)
ShipmentStatusEnum ==
  {"pending", "awaiting_pickup", "picked_up", "in_transit",
   "out_for_delivery", "delivered", "cancelled"}

PaymentStatusEnum == {"pending", "completed", "failed", "refunded"}

\* The paths paymentSchema declares; strict mode stores no other path.
PaymentPaths == {"status", "transactionId", "paidAt", "refundReason"}

NotificationTypeEnum ==
  {"payment_verification", "payment_confirmed", "payment_rejected",
   "shipment_status", "draft_expiry", "pickup_reminder", "delivery_update",
   "system_notification"}

PaymentDefault(path) == IF path = "status" THEN "pending" ELSE Undefined

\* What Mongoose keeps of an object held at shipment.payment: the declared
\* paths, with the schema default where the object has none.
CastPayment(obj) ==
  [path \in PaymentPaths |->
     IF path \in DOMAIN obj THEN obj[path] ELSE PaymentDefault(path)]

\* obj.path = value on an in-memory document (any property can be set on the
\* JavaScript object; only declared paths reach the database).
SetField(obj, path, value) ==
  [p \in DOMAIN obj \cup {path} |-> IF p = path THEN value ELSE obj[p]]

\* Reading shipment.payment.<path> in a condition: undefined is falsy.
Truthy(obj, path) == path \in DOMAIN obj /\ obj[path] = TRUE

\* The document as written to the collection.
ToStored(doc) == [doc EXCEPT !.payment = CastPayment(doc.payment)]

(***************************************************************************)
(* save(): validation, the pre('save') hook, the unique index.             *)
(***************************************************************************)
\* Validation of the modified paths: the enum validators.
ValidatePayment(old, doc, assigned) ==
  \/ (~assigned /\ doc.payment.status = old.payment.status)
  \/ doc.payment.status \in PaymentStatusEnum

ValidateShipment(old, doc, assigned) ==
  /\ doc.type # Undefined
  /\ doc.status \in ShipmentStatusEnum
  /\ \A i \in 1..Len(doc.timeline) : doc.timeline[i] \in ShipmentStatusEnum
  /\ ValidatePayment(old, doc, assigned)

\* shipmentSchema.pre('save'): a tracking number for a non-draft without one.
PreSave(doc, tn) ==
  IF doc.trackingNumber = NoTracking /\ ~doc.isDraft
    THEN [doc EXCEPT !.trackingNumber = tn]
    ELSE doc

\* The unique sparse index on trackingNumber.
DuplicateKey(d, id, doc) ==
  /\ doc.trackingNumber # NoTracking
  /\ \E other \in DOMAIN d \ {id} : d[other].trackingNumber = doc.trackingNumber

Put(d, id, doc) ==
  [i \in DOMAIN d \cup {id} |-> IF i = id THEN doc ELSE d[i]]

\* doc.save() of the in-memory document `doc` whose stored version is `old`
\* (`old` = doc for a new document); `assigned`: the payment subdocument was
\* assigned as a whole.  ok, the collection after it, the document in memory.
Save(d, id, old, doc, assigned, tn) ==
  IF ~ValidateShipment(old, doc, assigned)
    THEN [ok |-> FALSE, code |-> 400, db |-> d, doc |-> doc]
    ELSE LET hooked == PreSave(doc, tn)
         IN  IF DuplicateKey(d, id, hooked)
               THEN [ok |-> FALSE, code |-> 400, db |-> d, doc |-> hooked]
               ELSE [ok |-> TRUE, code |-> 200,
                     db |-> Put(d, id, ToStored(hooked)), doc |-> hooked]

\* addTimelineEntry pushing the entry a second time.
AddTimelineEntryTwice(d, id, old, doc, status, tn) ==
  Save(d, id, old,
       [doc EXCEPT !.timeline = Append(Append(@, status), status),
                   !.status = status],
       FALSE, tn)

\* shipmentSchema.methods.addTimelineEntry
AddTimelineEntry(d, id, old, doc, status, tn) ==
  Save(d, id, old,
       [doc EXCEPT !.timeline = Append(@, status), !.status = status],
       FALSE, tn)

(***************************************************************************)
(* The outcome of a request: the collection after it, the HTTP status the  *)
(* caller gets, and whether a save of the request reached the collection.  *)
(***************************************************************************)
Reply(d, code, saved) == [db |-> d, code |-> code, saved |-> saved]

\* Notification.create: userId is required, type is an enum.
NotificationValid(userId, ntype) ==
  userId # NoUser /\ ntype \in NotificationTypeEnum

\* What follows the save in the three payment operations: the notification,
\* then `if (shipment.userId) { user = await User.findById(...) ... }` in a
\* module that does not import User, then the broadcast.
PaymentSideEffects(userId, ntype) ==
  IF ~NotificationValid(userId, ntype) THEN 400
  ELSE IF userId # NoUser THEN 500
  ELSE 200

(***************************************************************************)
(* PaymentService (services/paymentService.js).                            *)
(***************************************************************************)
ServiceInitializeBankTransfer(d, id, accountName, bankName, tn) ==
  IF accountName = "" \/ bankName = "" THEN Reply(d, 400, FALSE)
  ELSE IF d[id].cost = NoCost THEN Reply(d, 500, FALSE)
  ELSE
    LET mem == [d[id] EXCEPT !.payment =
                  CastPayment([status |-> "awaiting_verification",
                               method |-> "bank_transfer",
                               amount |-> d[id].cost.total,
                               bankDetails |-> <<accountName, bankName>>,
                               createdAt |-> "now"])]
        s == Save(d, id, d[id], mem, TRUE, tn)
    IN  IF ~s.ok THEN Reply(d, s.code, FALSE)
        ELSE Reply(s.db, PaymentSideEffects(mem.userId, "payment_verification"), TRUE)

\* The verify guard letting a payment that was never initialized through.
VerifyPreconditionOrPending(doc) ==
  doc.payment.status \in {"awaiting_verification", "pending"}

\* The verify guard letting a rejected payment through.
VerifyPreconditionOrFailed(doc) ==
  doc.payment.status \in {"awaiting_verification", "failed"}

\* verifyBankTransfer: shipment.payment.status !== 'awaiting_verification'
VerifyPrecondition(doc) == doc.payment.status = "awaiting_verification"

ServiceVerifyBankTransfer(d, id, verified, rejectionReason, tn) ==
  IF id \notin DOMAIN d THEN Reply(d, 404, FALSE)
  ELSE IF ~VerifyPrecondition(d[id]) THEN Reply(d, 400, FALSE)
  ELSE
    LET p1 == SetField(d[id].payment, "status",
                       IF verified THEN "completed" ELSE "failed")
        p2 == SetField(SetField(SetField(p1, "verifiedAt", "now"),
                                "verifiedBy", "admin"), "notes", "notes")
        ntype == IF verified THEN "payment_confirmed" ELSE "payment_rejected"
    IN  IF verified
          THEN LET mem == [d[id] EXCEPT !.payment = p2, !.status = "awaiting_pickup"]
                   s1 == AddTimelineEntry(d, id, d[id], mem, "awaiting_pickup", tn)
                   s2 == Save(s1.db, id, s1.db[id], s1.doc, FALSE, tn)
               IN  IF ~s1.ok THEN Reply(d, s1.code, FALSE)
                   ELSE IF ~s2.ok THEN Reply(s1.db, s2.code, TRUE)
                   ELSE Reply(s2.db, PaymentSideEffects(mem.userId, ntype), TRUE)
          ELSE LET mem == [d[id] EXCEPT !.payment =
                             SetField(p2, "rejectionReason", rejectionReason)]
                   s == Save(d, id, d[id], mem, FALSE, tn)
               IN  IF ~s.ok THEN Reply(d, s.code, FALSE)
                   ELSE Reply(s.db, PaymentSideEffects(mem.userId, ntype), TRUE)

RefundStatusOk(doc) == doc.payment.status = "completed"

AlreadyRefunded(doc) == Truthy(doc.payment, "refunded")

ServiceProcessRefund(d, id, reason, amount, tn) ==
  IF id \notin DOMAIN d THEN Reply(d, 404, FALSE)
  ELSE IF ~RefundStatusOk(d[id]) THEN Reply(d, 400, FALSE)
  ELSE IF AlreadyRefunded(d[id]) THEN Reply(d, 400, FALSE)
  \* refundDetails.amount || shipment.cost.total, with shipment.cost undefined
  ELSE IF amount \in {NoAmount, 0} /\ d[id].cost = NoCost THEN Reply(d, 500, FALSE)
  ELSE
    LET refundAmount == IF amount \in {NoAmount, 0} THEN d[id].cost.total ELSE amount
        p == SetField(SetField(SetField(SetField(SetField(d[id].payment,
               "refunded", TRUE), "refundedAt", "now"), "refundedBy", "admin"),
               "refundReason", reason), "refundAmount", refundAmount)
        mem == [d[id] EXCEPT !.payment = p, !.status = "cancelled"]
        s1 == Save(d, id, d[id], mem, FALSE, tn)
        s2 == AddTimelineEntry(s1.db, id, s1.db[id], s1.doc, "cancelled", tn)
    IN  IF ~s1.ok THEN Reply(d, s1.code, FALSE)
        ELSE IF ~s2.ok THEN Reply(s1.db, s2.code, TRUE)
        ELSE Reply(s2.db, PaymentSideEffects(mem.userId, "payment_refunded"), TRUE)

(***************************************************************************)
(* Payment controllers (controllers/payment.js) behind routes/payment.js.  *)
(***************************************************************************)
\* POST /api/payments/bank-transfer/initialize, any logged-in user.
HandleInitializeBankTransfer(d, user, id, accountName, bankName, tn) ==
  IF id \notin DOMAIN d THEN Reply(d, 404, FALSE)
  ELSE IF d[id].userId # NoUser /\ d[id].userId # user THEN Reply(d, 403, FALSE)
  ELSE IF d[id].payment.status # "pending" THEN Reply(d, 400, FALSE)
  ELSE ServiceInitializeBankTransfer(d, id, accountName, bankName, tn)

\* POST /api/payments/bank-transfer/verify/:shipmentId, admin only.
HandleVerifyBankTransfer(d, id, verified, rejectionReason, tn) ==
  ServiceVerifyBankTransfer(d, id, verified, rejectionReason, tn)

\* POST /api/payments/:shipmentId/refund, admin only.
HandleProcessRefund(d, id, reason, amount, tn) ==
  ServiceProcessRefund(d, id, reason, amount, tn)

(***************************************************************************)
(* ShipmentService cost calculation (services/shipmentService.js), in      *)
(* cents; a running cost is the fraction num/den of a currency unit.       *)
(***************************************************************************)
BaseRateInternational == 20
BaseRateLocal == 10
VatRatePerMille == 75
InsuranceRateBasicPerMille == 10
InsuranceRatePremiumPerMille == 20
VolumetricDivisor == 5000

\* The configuration when the environment sets no rate.
DefaultRates ==
  [international |-> BaseRateInternational, local |-> BaseRateLocal,
   vat |-> VatRatePerMille, basic |-> InsuranceRateBasicPerMille,
   premium |-> InsuranceRatePremiumPerMille]

\* n/d rounded to the nearest integer, halves up (toFixed(2) on cents).
RoundDiv(n, d) == (2 * n + d) \div (2 * d)

Max(a, b) == IF a >= b THEN a ELSE b

\* calculateVolumetricWeight and calculateChargeableWeight, times 5000.
ChargeableWeight5000(pkg) ==
  Max(pkg.weight * VolumetricDivisor,
      pkg.dimensions.length * pkg.dimensions.width * pkg.dimensions.height)

RECURSIVE TotalChargeableWeight5000(_)
TotalChargeableWeight5000(packages) ==
  IF packages = <<>> THEN 0
  ELSE ChargeableWeight5000(Head(packages))
       + TotalChargeableWeight5000(Tail(packages))

\* A running cost is an exact fraction num/den of a currency unit, kept in
\* lowest terms.
RECURSIVE Gcd(_, _)
Gcd(a, b) == IF b = 0 THEN a ELSE Gcd(b, a % b)

Fraction(n, d) == [num |-> n \div Gcd(n, d), den |-> d \div Gcd(n, d)]

\* cost *= n/d
Times(cost, n, d) ==
  LET g1 == Gcd(cost.num, d)
      g2 == Gcd(n, cost.den)
  IN  [num |-> (cost.num \div g1) * (n \div g2),
       den |-> (cost.den \div g2) * (d \div g1)]

\* parseFloat(cost.toFixed(2)), in cents.  A cost exactly halfway between
\* two cents goes up here; toFixed rounds the binary double.
ToFixed2(cost) ==
  100 * (cost.num \div cost.den) + RoundDiv(100 * (cost.num % cost.den), cost.den)

\* The body of packages.forEach in calculateBaseShippingCost.
ApplyHandling(cost, pkg) ==
  LET c1 == IF pkg.isFragile THEN Times(cost, 6, 5) ELSE cost
      c2 == IF pkg.isPerishable THEN Times(c1, 23, 20) ELSE c1
  IN  IF pkg.isHazardous THEN Times(c2, 13, 10) ELSE c2

RECURSIVE ApplyHandlingToAll(_, _)
ApplyHandlingToAll(cost, packages) ==
  IF packages = <<>> THEN cost
  ELSE ApplyHandlingToAll(ApplyHandling(cost, Head(packages)), Tail(packages))

\* this.baseRates[type]
BaseRate(type) ==
  IF type = "international" THEN rates.international ELSE rates.local

\* calculateBaseShippingCost charging each kind of handling once per shipment
\* instead of once per package.
CalculateBaseShippingCostHandlingOnce(type, packages) ==
  LET weighed == Fraction(TotalChargeableWeight5000(packages) * BaseRate(type),
                          VolumetricDivisor)
      distance == IF type = "international" THEN Times(weighed, 3, 2) ELSE weighed
      any == [isFragile |-> \E i \in DOMAIN packages : packages[i].isFragile,
              isPerishable |-> \E i \in DOMAIN packages : packages[i].isPerishable,
              isHazardous |-> \E i \in DOMAIN packages : packages[i].isHazardous]
  IN  ToFixed2(ApplyHandling(distance, any))

\* calculateBaseShippingCost, in cents.
CalculateBaseShippingCost(type, packages) ==
  LET weighed == Fraction(TotalChargeableWeight5000(packages) * BaseRate(type),
                          VolumetricDivisor)
      distance == IF type = "international" THEN Times(weighed, 3, 2) ELSE weighed
  IN  ToFixed2(ApplyHandlingToAll(distance, packages))

\* calculateInsuranceCost, in cents.
CalculateInsuranceCost(insuranceType, baseAmount) ==
  IF insuranceType = "none" THEN 0
  ELSE RoundDiv(baseAmount * (IF insuranceType = "basic"
                                THEN rates.basic
                                ELSE rates.premium), 1000)

\* calculateShippingCost adding the rates up and rounding the total once.
CalculateShippingCostRoundedOnce(type, packages, insuranceType) ==
  LET baseAmount == CalculateBaseShippingCost(type, packages)
      kind == IF insuranceType = Undefined THEN "none" ELSE insuranceType
      insurance == CalculateInsuranceCost(kind, baseAmount)
      rate == IF kind = "none" THEN 0
              ELSE IF kind = "basic" THEN rates.basic ELSE rates.premium
      vat == RoundDiv(baseAmount * rates.vat, 1000)
  IN  [baseAmount |-> baseAmount, insurance |-> insurance, vat |-> vat,
       total |-> RoundDiv(baseAmount * (1000 + rates.vat + rate), 1000)]

\* calculateShippingCost; insuranceType is Undefined when the body has none.
CalculateShippingCost(type, packages, insuranceType) ==
  LET baseAmount == CalculateBaseShippingCost(type, packages)
      insurance == CalculateInsuranceCost(
                     IF insuranceType = Undefined THEN "none" ELSE insuranceType,
                     baseAmount)
      vat == RoundDiv(baseAmount * rates.vat, 1000)
  IN  [baseAmount |-> baseAmount, insurance |-> insurance, vat |-> vat,
       total |-> RoundDiv(100 * (baseAmount + insurance + vat), 100)]

(***************************************************************************)
(* Dates.  A date is the number of its calendar day; day 0 is a Sunday, so *)
(* getDay() of day d is d % 7 (0 Sunday .. 6 Saturday).                    *)
(***************************************************************************)
GetDay(day) == day % 7

\* getDay() === 0 || getDay() === 6
IsWeekend(day) == GetDay(day) = 0 \/ GetDay(day) = 6

\* An instant is a number of ticks, TicksPerDay of them to a calendar day.
TicksPerDay == 2
DayOf(instant) == instant \div TicksPerDay

\* maxDate.setDate(maxDate.getDate() + 30)
MaxFutureDays == 30

\* throw new AppError(message, statusCode), as the caller sees it; NoError
\* when the function returns.
AppError(message, statusCode) ==
  [threw |-> TRUE, statusCode |-> statusCode, message |-> message]
NoError == [threw |-> FALSE, statusCode |-> 0, message |-> "none"]

\* validatePickupDate testing the weekend before the two limits.
ValidatePickupDateWeekendFirst(date, now) ==
  LET maxDate == now + MaxFutureDays * TicksPerDay
  IN  IF IsWeekend(DayOf(date))
        THEN AppError("Pickup is not available on weekends", 400)
      ELSE IF date < now
        THEN AppError("Pickup date cannot be in the past", 400)
      ELSE IF date > maxDate
        THEN AppError("Pickup date cannot be more than 30 days in the future", 400)
      ELSE NoError

\* validatePickupDate(pickupDate) called at instant `now`.
ValidatePickupDate(date, now) ==
  LET maxDate == now + MaxFutureDays * TicksPerDay
  IN  IF date < now
        THEN AppError("Pickup date cannot be in the past", 400)
      ELSE IF date > maxDate
        THEN AppError("Pickup date cannot be more than 30 days in the future", 400)
      ELSE IF IsWeekend(DayOf(date))
        THEN AppError("Pickup is not available on weekends", 400)
      ELSE NoError

\* validatePackages: the limits of a list and of a package (cm, kg).
MaxPackagesAllowed == 10
MaxDimension == 150

\* const maxWeight = pkg.type === 'documents' ? 5 : 70
MaxWeight(pkg) == IF pkg.type = "documents" THEN 5 ELSE 70

\* The body of packages.forEach in validatePackages for the package at
\* 0-based position index - 1: the error it throws, or NoError.  A message
\* is the package number, the text and the limit the text quotes.
ValidatePackage(pkg, index) ==
  IF pkg.weight <= 0
    THEN AppError(<<index, "Weight must be greater than 0", 0>>, 400)
  ELSE IF \/ pkg.dimensions.length <= 0
          \/ pkg.dimensions.width <= 0
          \/ pkg.dimensions.height <= 0
    THEN AppError(<<index, "Invalid dimensions", 0>>, 400)
  ELSE IF \/ pkg.dimensions.length > MaxDimension
          \/ pkg.dimensions.width > MaxDimension
          \/ pkg.dimensions.height > MaxDimension
    THEN AppError(<<index, "Maximum dimension allowed is", MaxDimension>>, 400)
  ELSE IF pkg.weight > MaxWeight(pkg)
    THEN AppError(<<index, "Maximum weight allowed is", MaxWeight(pkg)>>, 400)
  ELSE NoError

\* packages.forEach from position index on: the first throw ends the loop.
RECURSIVE ValidateEach(_, _)
ValidateEach(packages, index) ==
  IF index > Len(packages) THEN NoError
  ELSE LET e == ValidatePackage(packages[index], index)
       IN  IF e.threw THEN e ELSE ValidateEach(packages, index + 1)

\* validatePackages reporting the last offending package instead of the first.
ValidatePackagesLastOffender(present, packages) ==
  IF ~present \/ Len(packages) = 0
    THEN AppError(<<0, "At least one package is required", 0>>, 400)
  ELSE IF Len(packages) > MaxPackagesAllowed
    THEN AppError(<<0, "Maximum 10 packages allowed per shipment", 0>>, 400)
  ELSE LET bad == {i \in DOMAIN packages : ValidatePackage(packages[i], i).threw}
       IN  IF bad = {} THEN NoError
           ELSE LET last == CHOOSE i \in bad : \A j \in bad : j <= i
                IN  ValidatePackage(packages[last], last)

\* validatePackages(packages); present is FALSE when the argument is
\* undefined.
ValidatePackages(present, packages) ==
  IF ~present \/ Len(packages) = 0
    THEN AppError(<<0, "At least one package is required", 0>>, 400)
  ELSE IF Len(packages) > MaxPackagesAllowed
    THEN AppError(<<0, "Maximum 10 packages allowed per shipment", 0>>, 400)
  ELSE ValidateEach(packages, 1)

\* packages.some(pkg => pkg.isFragile || pkg.isPerishable || pkg.isHazardous)
HasSpecialHandling(packages) ==
  \E i \in DOMAIN packages :
    packages[i].isFragile \/ packages[i].isPerishable \/ packages[i].isHazardous

\* deliveryDays with Math.floor in place of Math.ceil.
DeliveryDaysRoundedDown(type, packages) ==
  (IF type = "international" THEN 5 ELSE 2)
  + (IF Len(packages) > 1 THEN Len(packages) \div 2 ELSE 0)
  + (IF HasSpecialHandling(packages) THEN 1 ELSE 0)

\* deliveryDays of estimateDeliveryDate; Math.ceil(n / 2) is (n + 1) \div 2.
DeliveryDays(type, packages) ==
  (IF type = "international" THEN 5 ELSE 2)
  + (IF Len(packages) > 1 THEN (Len(packages) + 1) \div 2 ELSE 0)
  + (IF HasSpecialHandling(packages) THEN 1 ELSE 0)

(***************************************************************************)
(* Shipment controllers (controllers/shipment.js) behind routes/shipment.js*)
(***************************************************************************)
\* new Shipment(data): the schema defaults of the paths `data` leaves out.
NewDocument(userId, type, isDraft) ==
  [userId |-> userId, trackingNumber |-> NoTracking, type |-> type,
   status |-> "pending", insurance |-> "none", packages |-> <<>>,
   cost |-> NoCost,
   payment |-> CastPayment(<<>>), timeline |-> <<>>, isDraft |-> isDraft,
   sender |-> Undefined, recipient |-> Undefined]

\* addressSchema.address.country: { uppercase: true }.
Uppercase(country) ==
  IF country = "ng" THEN "NG" ELSE IF country = "gh" THEN "GH" ELSE country

\* validateAddresses: TRUE when it throws.
ValidateAddressesThrows(type, sender, recipient) ==
  IF type = "international" THEN sender = recipient ELSE sender # recipient

\* Object.assign(document, fields) / new Shipment(fields) for the request
\* fields that no validator removes: a field left out is Undefined (0 for the
\* tracking number) and leaves the path alone.  timeline is a key of f only
\* when the request sends it.
AssignFields(doc, f) ==
  [doc EXCEPT
     !.type = IF f.type = Undefined THEN @ ELSE f.type,
     !.status = IF f.status = Undefined THEN @ ELSE f.status,
     !.trackingNumber = IF f.trackingNumber = NoTracking THEN @ ELSE f.trackingNumber,
     !.payment = IF f.paymentStatus = Undefined THEN @
                 ELSE CastPayment([status |-> f.paymentStatus]),
     !.timeline = IF "timeline" \in DOMAIN f THEN f.timeline ELSE @,
     !.sender = IF "sender" \in DOMAIN f THEN Uppercase(f.sender) ELSE @,
     !.recipient = IF "recipient" \in DOMAIN f THEN Uppercase(f.recipient) ELSE @]

\* POST /api/shipments/initialize
HandleInitializeShipment(d, user, id, type, tn) ==
  LET doc == NewDocument(user, type, TRUE)
      s == Save(d, id, doc, doc, TRUE, tn)
  IN  IF ~s.ok THEN Reply(d, s.code, FALSE) ELSE Reply(s.db, 201, TRUE)

\* POST /api/shipments/draft; f.id = 0 when formData has no _id, `id` is the
\* _id a new document gets.
HandleSaveShipmentDraft(d, user, id, f, tn) ==
  LET found == f.id \in DOMAIN d
  IN  IF found /\ d[f.id].userId # NoUser /\ d[f.id].userId # user
        THEN Reply(d, 403, FALSE)
      ELSE
        LET target == IF f.id # 0 THEN f.id ELSE id
            base == IF found THEN d[f.id] ELSE NewDocument(NoUser, Undefined, TRUE)
            a == [AssignFields(base, f) EXCEPT !.isDraft = TRUE]
            doc == IF user # NoUser THEN [a EXCEPT !.userId = user] ELSE a
            s == Save(d, target, IF found THEN d[f.id] ELSE doc, doc,
                      f.paymentStatus # Undefined \/ ~found, tn)
        IN  IF ~s.ok THEN Reply(d, s.code, FALSE) ELSE Reply(s.db, 200, TRUE)

\* POST /api/shipments; b holds the body: type, the sender and recipient
\* countries, packages, insurance and the fields the validation chain lets
\* through untouched.  The packages and the pickup date of b are ones that
\* validatePackages and validatePickupDate accept.
HandleCreateShipment(d, user, id, b, tn) ==
  LET cost == CalculateShippingCost(b.type, b.packages, b.insurance)
      a == AssignFields(NewDocument(user, b.type, FALSE), b)
      doc == [a EXCEPT !.cost = cost,
                       !.packages = b.packages,
                       !.insurance = IF b.insurance = Undefined THEN @ ELSE b.insurance]
      s1 == Save(d, id, doc, doc, TRUE, tn)
      s2 == AddTimelineEntry(s1.db, id, s1.db[id], s1.doc, "pending", tn)
  IN  IF ValidateAddressesThrows(b.type, b.sender, b.recipient)
        THEN Reply(d, 400, FALSE)
      ELSE IF ~s1.ok THEN Reply(d, s1.code, FALSE)
      ELSE IF ~s2.ok THEN Reply(s1.db, s2.code, TRUE)
      ELSE Reply(s2.db, 201, TRUE)

\* PUT /api/shipments/:id/insurance (the other field updates, package,
\* delivery, sender, recipient and pickup, have the same shape).
HandleUpdateInsurance(d, user, id, insurance, tn) ==
  IF id \notin DOMAIN d THEN Reply(d, 404, FALSE)
  ELSE LET s == Save(d, id, d[id], [d[id] EXCEPT !.insurance = insurance], FALSE, tn)
       IN  IF ~s.ok THEN Reply(d, s.code, FALSE) ELSE Reply(s.db, 200, TRUE)

\* PUT /api/shipments/:id/package
HandleUpdatePackageDetails(d, user, id, packages, tn) ==
  IF id \notin DOMAIN d THEN Reply(d, 404, FALSE)
  ELSE LET s == Save(d, id, d[id], [d[id] EXCEPT !.packages = packages], FALSE, tn)
       IN  IF ~s.ok THEN Reply(d, s.code, FALSE) ELSE Reply(s.db, 200, TRUE)

\* PUT /api/shipments/:id/sender
HandleUpdateSenderInfo(d, user, id, country, tn) ==
  IF id \notin DOMAIN d THEN Reply(d, 404, FALSE)
  ELSE LET s == Save(d, id, d[id], [d[id] EXCEPT !.sender = Uppercase(country)],
                     FALSE, tn)
       IN  IF ~s.ok THEN Reply(d, s.code, FALSE) ELSE Reply(s.db, 200, TRUE)

\* PUT /api/shipments/:id/recipient
HandleUpdateRecipientInfo(d, user, id, country, tn) ==
  IF id \notin DOMAIN d THEN Reply(d, 404, FALSE)
  ELSE LET s == Save(d, id, d[id], [d[id] EXCEPT !.recipient = Uppercase(country)],
                     FALSE, tn)
       IN  IF ~s.ok THEN Reply(d, s.code, FALSE) ELSE Reply(s.db, 200, TRUE)

\* PUT /api/shipments/:id/status, admin only.
HandleUpdateShipmentStatus(d, id, status, tn) ==
  IF id \notin DOMAIN d \/ d[id].isDraft THEN Reply(d, 404, FALSE)
  ELSE LET mem == [d[id] EXCEPT !.status = status]
           s == AddTimelineEntry(d, id, d[id], mem, status, tn)
       IN  IF ~s.ok THEN Reply(d, s.code, FALSE) ELSE Reply(s.db, 200, TRUE)

(***************************************************************************)
(* Request inputs.                                                         *)
(***************************************************************************)
Parcel ==
  [weight |-> 10, dimensions |-> [length |-> 50, width |-> 40, height |-> 30],
   isFragile |-> FALSE, isPerishable |-> FALSE, isHazardous |-> FALSE]

TypeInputs == {"local"}
PackageInputs == {<<Parcel>>}
InsuranceInputs == {"none", "basic"}
\* PUT /:id/status accepts every status of the enum; one of them is drawn.
StatusInputs == {"in_transit"}
ReasonInputs == {"damaged"}
\* The refund amount in cents (the route accepts an amount only if > 0).
AmountInputs == {NoAmount, 4000, 20000}
NameInputs == {"Acme"}

\* formData of a draft save: the form of a step (the type, and the _id once
\* the draft exists), alone or with one more path of the document.
PlainForm(id) ==
  [id |-> id, type |-> IF id = 0 THEN "local" ELSE Undefined,
   status |-> Undefined, trackingNumber |-> NoTracking,
   paymentStatus |-> Undefined]

FormInputs ==
  UNION {{PlainForm(id),
          [PlainForm(id) EXCEPT !.type = Undefined],
          [PlainForm(id) EXCEPT !.paymentStatus = "completed"],
          [PlainForm(id) EXCEPT !.paymentStatus = "awaiting_verification"]}
         \cup {[PlainForm(id) EXCEPT !.status = st] : st \in StatusInputs}
         \cup {[PlainForm(id) EXCEPT !.trackingNumber = tn] : tn \in TrackingNumbers}
         : id \in {0} \cup ShipmentIds}

\* A trackingNumber written by the client (not one the server generated).
ClientTracking == 2

\* formData that carries a path of the document the wizard itself never
\* sends: a trackingNumber of the client's choice, or a timeline.
OverwritingFormInputs ==
  UNION {{[PlainForm(id) EXCEPT !.trackingNumber = ClientTracking],
          SetField(PlainForm(id), "timeline", <<>>)}
         : id \in {0} \cup ShipmentIds}

\* The body of a create request.
BodyInputs ==
  [type : TypeInputs,
   sender : {"NG"},
   recipient : {"NG"},
   packages : PackageInputs,
   insurance : {Undefined},
   status : {Undefined},
   trackingNumber : {NoTracking},
   paymentStatus : {Undefined, "completed"}]

(***************************************************************************)
(* Actions: one request each.                                              *)
(***************************************************************************)
\* The timeline has no limit in the code; the model stops at MaxTimeline.
TimelineBounded(d) == \A i \in DOMAIN d : Len(d[i].timeline) <= MaxTimeline

Respond(op, id, r) ==
  /\ TimelineBounded(r.db)
  /\ db' = r.db
  /\ res' = [op |-> op, id |-> id, code |-> r.code, saved |-> r.saved]
  /\ UNCHANGED <<rates, call, reqs>>

InitializeBankTransfer ==
  \E user \in Users, id \in ShipmentIds, an \in NameInputs, bn \in NameInputs :
   \E tn \in TrackingNumbers :
    Respond("initialize", id, HandleInitializeBankTransfer(db, user, id, an, bn, tn))

VerifyBankTransfer ==
  \E id \in ShipmentIds, verified \in BOOLEAN : \E tn \in TrackingNumbers :
    Respond(IF verified THEN "verify" ELSE "reject", id,
            HandleVerifyBankTransfer(db, id, verified,
              IF verified THEN Undefined ELSE "unpaid", tn))

ProcessRefund ==
  \E id \in ShipmentIds, reason \in ReasonInputs, amount \in AmountInputs :
   \E tn \in TrackingNumbers :
    Respond("refund", id, HandleProcessRefund(db, id, reason, amount, tn))

InitializeShipment ==
  \E user \in Requesters, id \in ShipmentIds \ DOMAIN db, type \in TypeInputs,
     tn \in TrackingNumbers :
    Respond("initializeShipment", id, HandleInitializeShipment(db, user, id, type, tn))

SaveShipmentDraft ==
  \E user \in Requesters, id \in ShipmentIds, f \in FormInputs : \E tn \in TrackingNumbers :
    /\ f.id = 0 => id \notin DOMAIN db
    /\ f.id # 0 => id = f.id
    /\ Respond("saveDraft", id, HandleSaveShipmentDraft(db, user, id, f, tn))

\* POST /draft with a formData of OverwritingFormInputs.
SaveShipmentDraftOverwriting ==
  \E user \in Requesters, id \in ShipmentIds, f \in OverwritingFormInputs :
   \E tn \in TrackingNumbers :
    /\ f.id = 0 => id \notin DOMAIN db
    /\ f.id # 0 => id = f.id
    /\ Respond("saveDraft", id, HandleSaveShipmentDraft(db, user, id, f, tn))

\* ISO 3166-1 alpha-2 codes as the route accepts them (isISO31661Alpha2
\* takes either case).
CountryInputs == {"NG", "ng", "GH", "KE", "GB"}

\* The body of a create request, of either type and between any countries.
AddressedBodyInputs ==
  [type : {"international", "local"},
   sender : CountryInputs,
   recipient : CountryInputs,
   packages : PackageInputs,
   insurance : {Undefined},
   status : {Undefined},
   trackingNumber : {NoTracking},
   paymentStatus : {Undefined}]

CreateShipmentAddressed ==
  \E user \in Requesters, id \in ShipmentIds \ DOMAIN db, b \in AddressedBodyInputs,
     tn \in TrackingNumbers :
    Respond("create", id, HandleCreateShipment(db, user, id, b, tn))

UpdateSenderInfo ==
  \E user \in Requesters, id \in ShipmentIds, country \in CountryInputs :
   \E tn \in TrackingNumbers :
    Respond("updateSender", id, HandleUpdateSenderInfo(db, user, id, country, tn))

UpdateRecipientInfo ==
  \E user \in Requesters, id \in ShipmentIds, country \in CountryInputs :
   \E tn \in TrackingNumbers :
    Respond("updateRecipient", id, HandleUpdateRecipientInfo(db, user, id, country, tn))

CreateShipment ==
  \E user \in Requesters, id \in ShipmentIds \ DOMAIN db, b \in BodyInputs,
     tn \in TrackingNumbers :
    Respond("create", id, HandleCreateShipment(db, user, id, b, tn))

UpdateInsurance ==
  \E user \in Requesters, id \in ShipmentIds, insurance \in InsuranceInputs :
   \E tn \in TrackingNumbers :
    Respond("updateField", id, HandleUpdateInsurance(db, user, id, insurance, tn))

UpdatePackageDetails ==
  \E user \in Requesters, id \in ShipmentIds,
     packages \in {<<Parcel>>, <<Parcel, Parcel>>} :
   \E tn \in TrackingNumbers :
    Respond("updatePackages", id, HandleUpdatePackageDetails(db, user, id, packages, tn))

\* Statuses of an early, a middle and the last stage for PUT /:id/status.
StageInputs == {"pending", "in_transit", "delivered"}

UpdateShipmentStatusToStage ==
  \E id \in ShipmentIds, status \in StageInputs : \E tn \in TrackingNumbers :
    Respond("updateStatus", id, HandleUpdateShipmentStatus(db, id, status, tn))

UpdateShipmentStatus ==
  \E id \in ShipmentIds, status \in StatusInputs : \E tn \in TrackingNumbers :
    Respond("updateStatus", id, HandleUpdateShipmentStatus(db, id, status, tn))

EmptyDb == [i \in {} |-> NewDocument(NoUser, Undefined, TRUE)]

NoResponse == [op |-> "none", id |-> 0, code |-> 0, saved |-> FALSE]

\* No call of a ShipmentService function is being looked at.
NoCall == [fn |-> "none"]

\* The payment requests in flight: two slots, each serving one request.
Requests == {1, 2}
IdleRequest == [op |-> "none", pc |-> "idle"]
NoRequests == [r \in Requests |-> IdleRequest]

Init ==
  /\ db = EmptyDb
  /\ res = NoResponse
  /\ rates = DefaultRates
  /\ call = NoCall
  /\ reqs = NoRequests

Next ==
  \/ InitializeBankTransfer
  \/ VerifyBankTransfer
  \/ ProcessRefund
  \/ InitializeShipment
  \/ SaveShipmentDraft
  \/ CreateShipment
  \/ UpdateShipmentStatus

Spec == Init /\ [][Next]_vars

\* The same requests together with the field-update routes of a shipment.
NextFields ==
  \/ Next
  \/ UpdateInsurance

SpecFields == Init /\ [][NextFields]_vars

\* The same requests with both updates that change what the cost is
\* computed from.
NextCost ==
  \/ Next
  \/ UpdateInsurance
  \/ UpdatePackageDetails

SpecCost == Init /\ [][NextCost]_vars

\* The same requests together with draft saves whose formData overwrites
\* server-owned paths.
NextForms ==
  \/ Next
  \/ SaveShipmentDraftOverwriting

SpecForms == Init /\ [][NextForms]_vars

\* The same requests together with admin status updates to several stages.
NextStatus ==
  \/ Next
  \/ UpdateShipmentStatusToStage

SpecStatus == Init /\ [][NextStatus]_vars

\* Shipments of both types between any countries, and the updates of their
\* sender and recipient.
NextAddress ==
  \/ CreateShipmentAddressed
  \/ UpdateSenderInfo
  \/ UpdateRecipientInfo

SpecAddress == Init /\ [][NextAddress]_vars

(***************************************************************************)
(* Calls of the ShipmentService functions.  The initial state draws the    *)
(* rate configuration and the arguments of one call; the action of the     *)
(* function makes the call and keeps its result.                           *)
(***************************************************************************)
MaxPackages == 3

Light ==
  [weight |-> 1, dimensions |-> [length |-> 30, width |-> 20, height |-> 11],
   isFragile |-> FALSE, isPerishable |-> FALSE, isHazardous |-> FALSE]

HeavyFragileHazardous ==
  [weight |-> 3, dimensions |-> [length |-> 10, width |-> 10, height |-> 10],
   isFragile |-> TRUE, isPerishable |-> FALSE, isHazardous |-> TRUE]

PackageChoices ==
  {Parcel, Light, [Light EXCEPT !.isFragile = TRUE],
   [Light EXCEPT !.isPerishable = TRUE], [Light EXCEPT !.isHazardous = TRUE],
   HeavyFragileHazardous}

\* packages: 1 to MaxPackages of them (the routes take 1 to 10).
PackageLists == UNION {[1..n -> PackageChoices] : n \in 1..MaxPackages}

\* A configuration set through BASE_RATE_*, VAT_RATE and INSURANCE_RATE_*.
OtherRates ==
  [international |-> 25, local |-> 12, vat |-> 50, basic |-> 15, premium |-> 33]

RateConfigs == {DefaultRates, OtherRates}

CostCalls ==
  [fn : {"calculateShippingCost"},
   type : {"international", "local"},
   packages : PackageLists,
   insurance : {Undefined, "none", "basic", "premium"},
   done : {FALSE},
   out : {NoCost}]

CallCalculateShippingCost ==
  /\ call.fn = "calculateShippingCost"
  /\ ~call.done
  /\ call' = [call EXCEPT
                !.done = TRUE,
                !.out = CalculateShippingCost(call.type, call.packages, call.insurance)]
  /\ UNCHANGED <<db, res, rates, reqs>>

BaseCostCalls ==
  [fn : {"calculateBaseShippingCost"},
   type : {"international", "local"},
   packages : PackageLists,
   done : {FALSE},
   out : {0}]

CallCalculateBaseShippingCost ==
  /\ call.fn = "calculateBaseShippingCost"
  /\ ~call.done
  /\ call' = [call EXCEPT
                !.done = TRUE,
                !.out = CalculateBaseShippingCost(call.type, call.packages)]
  /\ UNCHANGED <<db, res, rates, reqs>>

\* estimateDeliveryDate runs in steps: pc is "start" before the call,
\* "adjust" at the head of the while loop, "returned" after the return; out
\* is estimatedDate.
PickupDays == 0..6

EstimateCalls ==
  [fn : {"estimateDeliveryDate"},
   type : {"international", "local"},
   packages : PackageLists,
   pickup : PickupDays,
   pc : {"start"},
   done : {FALSE},
   out : {0}]

\* Lines 123-146: deliveryDays, then estimatedDate = pickupDate + deliveryDays.
CallEstimateDeliveryDate ==
  /\ call.fn = "estimateDeliveryDate"
  /\ call.pc = "start"
  /\ call' = [call EXCEPT
                !.pc = "adjust",
                !.out = call.pickup + DeliveryDays(call.type, call.packages)]
  /\ UNCHANGED <<db, res, rates, reqs>>

\* One iteration of the while loop.
AdjustForWeekend ==
  /\ call.fn = "estimateDeliveryDate"
  /\ call.pc = "adjust"
  /\ IsWeekend(call.out)
  /\ call' = [call EXCEPT !.out = @ + 1]
  /\ UNCHANGED <<db, res, rates, reqs>>

\* The loop condition is false: return estimatedDate.
ReturnEstimatedDate ==
  /\ call.fn = "estimateDeliveryDate"
  /\ call.pc = "adjust"
  /\ ~IsWeekend(call.out)
  /\ call' = [call EXCEPT !.pc = "returned", !.done = TRUE]
  /\ UNCHANGED <<db, res, rates, reqs>>

\* A caller passes estimateDeliveryDate its shipmentData.
InvokeEstimateDeliveryDate ==
  /\ call = NoCall
  /\ reqs = NoRequests
  /\ call' \in EstimateCalls
  /\ UNCHANGED <<db, res, rates, reqs>>

EstimateSteps ==
  \/ CallEstimateDeliveryDate
  \/ AdjustForWeekend
  \/ ReturnEstimatedDate

InitEstimate ==
  /\ db = EmptyDb
  /\ res = NoResponse
  /\ rates = DefaultRates
  /\ call = NoCall
  /\ reqs = NoRequests

NextEstimate ==
  \/ InvokeEstimateDeliveryDate
  \/ EstimateSteps

\* A call that has started runs on: a synchronous function is not
\* suspended between its statements.
SpecEstimate == InitEstimate /\ [][NextEstimate]_vars /\ WF_vars(EstimateSteps)

\* The current time ranges over the instants of one week; the pickup date
\* from a day before it to two days past the 30-day limit.
NowInputs == (7 * TicksPerDay)..(14 * TicksPerDay - 1)

PickupDateCalls ==
  UNION {[fn : {"validatePickupDate"},
          now : {n},
          date : (n - TicksPerDay)..(n + (MaxFutureDays + 2) * TicksPerDay),
          done : {FALSE},
          out : {NoError}] : n \in NowInputs}

CallValidatePickupDate ==
  /\ call.fn = "validatePickupDate"
  /\ ~call.done
  /\ call' = [call EXCEPT !.done = TRUE,
                          !.out = ValidatePickupDate(call.date, call.now)]
  /\ UNCHANGED <<db, res, rates, reqs>>

\* Packages as validatePackages reads them: type is what pkg.type yields,
\* packageType the field of the routes and of packageSchema.
MaxChecked == 2

Checked(packageType, type, weight, length, width, height) ==
  [packageType |-> packageType, type |-> type, weight |-> weight,
   dimensions |-> [length |-> length, width |-> width, height |-> height],
   isFragile |-> FALSE, isPerishable |-> FALSE, isHazardous |-> FALSE]

GoodPackage == Checked("parcel", Undefined, 10, 50, 40, 30)

CheckedPackages ==
  {GoodPackage,
   Checked("parcel", Undefined, 70, 150, 150, 1),
   Checked("parcel", Undefined, 71, 50, 40, 30),
   Checked("parcel", Undefined, 0, 50, 40, 30),
   Checked("parcel", Undefined, 0, 0, 151, 30),
   Checked("parcel", Undefined, 10, 50, 0, 151),
   Checked("parcel", Undefined, 10, 50, 40, 0),
   Checked("parcel", Undefined, 10, 151, 40, 30),
   Checked("parcel", Undefined, 71, 50, 40, 151),
   Checked("documents", "documents", 5, 30, 20, 1),
   Checked("documents", "documents", 6, 30, 20, 1),
   Checked("documents", "documents", 71, 30, 20, 1)}

CheckedLists ==
  UNION {[1..n -> CheckedPackages] : n \in 0..MaxChecked}
  \cup {[i \in 1..MaxPackagesAllowed |-> GoodPackage],
        [i \in 1..(MaxPackagesAllowed + 1) |-> GoodPackage],
        [i \in 1..MaxPackagesAllowed |->
           IF i = MaxPackagesAllowed THEN Checked("parcel", Undefined, 71, 50, 40, 30)
           ELSE GoodPackage]}

PackagesCalls ==
  [fn : {"validatePackages"},
   present : {TRUE},
   packages : CheckedLists,
   done : {FALSE},
   out : {NoError}]
  \cup
  [fn : {"validatePackages"},
   present : {FALSE},
   packages : {<<>>},
   done : {FALSE},
   out : {NoError}]

CallValidatePackages ==
  /\ call.fn = "validatePackages"
  /\ ~call.done
  /\ call' = [call EXCEPT !.done = TRUE,
                          !.out = ValidatePackages(call.present, call.packages)]
  /\ UNCHANGED <<db, res, rates, reqs>>

\* POST /api/shipments/calculate-cost.  A body that passed
\* calculateCostValidation: 1 to 10 packages, each with packageType in the
\* enum, weight >= 0.1 and sides from 1 to 150.  The chain names no `type`
\* of a package, so pkg.type is undefined in the controller.
Submitted(packageType, weight) == Checked(packageType, Undefined, weight, 30, 20, 1)

SubmittedPackages ==
  {Submitted(packageType, weight) :
     packageType \in {"parcel", "documents"}, weight \in {5, 6, 70, 71}}

SubmittedLists == UNION {[1..n -> SubmittedPackages] : n \in 1..MaxChecked}

CalculateCostRequests ==
  [fn : {"calculateCost"},
   type : {"local"},
   packages : SubmittedLists,
   insurance : {Undefined},
   done : {FALSE},
   out : {[statusCode |-> 0, cost |-> NoCost]}]

\* calculateCost: the errorHandler answers a thrown AppError with its
\* statusCode.
HandleCalculateCost(body) ==
  LET e == ValidatePackages(TRUE, body.packages)
  IN  IF e.threw THEN [statusCode |-> e.statusCode, cost |-> NoCost]
      ELSE [statusCode |-> 200,
            cost |-> CalculateShippingCost(body.type, body.packages, body.insurance)]

CalculateCost ==
  /\ call.fn = "calculateCost"
  /\ ~call.done
  /\ call' = [call EXCEPT !.done = TRUE, !.out = HandleCalculateCost(call)]
  /\ UNCHANGED <<db, res, rates, reqs>>

ServiceCalls ==
  CostCalls \cup BaseCostCalls \cup PickupDateCalls \cup PackagesCalls
  \cup CalculateCostRequests

InitService ==
  /\ db = EmptyDb
  /\ res = NoResponse
  /\ rates \in RateConfigs
  /\ call \in ServiceCalls
  /\ reqs = NoRequests

NextService ==
  \/ CallCalculateShippingCost
  \/ CallCalculateBaseShippingCost
  \/ CallValidatePickupDate
  \/ CallValidatePackages
  \/ CalculateCost

SpecService == InitService /\ [][NextService]_vars

(***************************************************************************)
(* A second specification.  Under Spec no shipment ever holds              *)
(* payment.status = "awaiting_verification": the only writer, initialize,  *)
(* fails the enum validator of paymentSchema on save.  verifyBankTransfer  *)
(* and getPendingBankTransfers are written for such records, and findById  *)
(* validates nothing on load, so SpecStored lets the collection start with *)
(* one record in the state initialize is meant to leave (a created,        *)
(* non-draft shipment awaiting verification), stored by another writer of  *)
(* the collection.  Every behaviour of Spec is a behaviour of SpecStored.  *)
(***************************************************************************)
AwaitingShipment(userId, tn) ==
  [NewDocument(userId, "local", FALSE) EXCEPT
     !.trackingNumber = tn,
     !.packages = <<Parcel>>,
     !.cost = CalculateShippingCost("local", <<Parcel>>, Undefined),
     !.timeline = <<"pending">>,
     !.sender = "NG",
     !.recipient = "NG",
     !.payment = [CastPayment(<<>>) EXCEPT !.status = "awaiting_verification"]]

InitStored ==
  /\ rates = DefaultRates
  /\ \/ db = EmptyDb
     \/ \E userId \in Requesters, tn \in TrackingNumbers :
          db = Put(EmptyDb, 1, AwaitingShipment(userId, tn))
  /\ res = NoResponse
  /\ call = NoCall
  /\ reqs = NoRequests

SpecStored == InitStored /\ [][Next]_vars

(***************************************************************************)
(* Payment requests step by step.  An async function runs without          *)
(* interruption from one await to the next, so a step is an await that     *)
(* reaches the collection together with the statements up to the next one. *)
(* A running request keeps: mem, the document findById gave it with the    *)
(* assignments made since; modified, the schema paths assigned since the   *)
(* last save; pushed, the timeline entries pushed since; sent, the         *)
(* notifications and broadcasts it has emitted; code, the HTTP status of   *)
(* its response once it has one.                                           *)
(***************************************************************************)
\* The $push of a save replaced by a $set of the whole in-memory array.
WriteTimelineWhole(stored, mem, pushed) == mem.timeline

\* timeline.push(entry) reaches the collection as $push: the entry lands
\* after whatever the stored array holds at that moment.
WriteTimeline(stored, mem, pushed) == stored.timeline \o pushed

\* doc.save() of a loaded document: updateOne with $set of the modified
\* paths and $push of the pushed entries; paths not modified keep what the
\* collection holds.
UpdateOne(stored, mem, modified, pushed) ==
  [stored EXCEPT
     !.status = IF "status" \in modified THEN mem.status ELSE @,
     !.payment = [path \in DOMAIN stored.payment |->
                    IF path \in PaymentPaths /\ ("payment." \o path) \in modified
                         /\ path \in DOMAIN mem.payment
                      THEN mem.payment[path]
                      ELSE stored.payment[path]],
     !.timeline = WriteTimeline(stored, mem, pushed)]

\* The request after a save (the values the requests assign are members of
\* the enums, so validation lets every such save through).
Saved(req, pc) ==
  [req EXCEPT !.pc = pc, !.modified = {}, !.pushed = <<>>, !.writes = @ + 1]

\* The request answered with `code`.
Answered(req, code) ==
  [op |-> req.op, pc |-> "done", code |-> code, sent |-> <<>>] @@ req

\* What a request has emitted when it returns or throws.  createNotification
\* comes first and throws unless Notification.create accepts the document;
\* a notification needs a userId, and with a userId the next statement,
\* User.findById in a module that does not import User, throws, so the
\* email and sendPaymentUpdate that follow it are never reached.
EffectsSent(userId, ntype) ==
  IF NotificationValid(userId, ntype)
    THEN <<[kind |-> "notification", to |-> userId, type |-> ntype]>>
    ELSE <<>>

ReceiveVerify(r) ==
  /\ reqs[r].op = "none"
  /\ \E verified \in BOOLEAN :
       reqs' = [reqs EXCEPT ![r] =
                  [op |-> "verify", pc |-> "find", id |-> 1, verified |-> verified,
                   reason |-> IF verified THEN Undefined ELSE "unpaid",
                   amount |-> NoAmount]]
  /\ UNCHANGED <<db, res, rates, call>>

\* Another request of the same kind has passed its checks and has not yet
\* written.
Racing(r) ==
  \E q \in Requests \ {r} :
    /\ reqs[q].op = reqs[r].op
    /\ reqs[q].pc \in {"addTimelineEntry", "save"}
    /\ reqs[q].writes = 0

\* verifyBankTransfer, lines 62-87: findById, the two checks, the
\* assignments and, when verified, the push of addTimelineEntry.
VerifyFind(r) ==
  LET req == reqs[r]
      found == req.id \in DOMAIN db
      shipment == db[req.id]
      p == SetField(SetField(SetField(SetField(shipment.payment,
             "status", IF req.verified THEN "completed" ELSE "failed"),
             "verifiedAt", "now"), "verifiedBy", "admin"), "notes", "notes")
      mem == IF req.verified
               THEN [shipment EXCEPT !.payment = p, !.status = "awaiting_pickup",
                                     !.timeline = Append(@, "awaiting_pickup")]
               ELSE [shipment EXCEPT !.payment =
                       SetField(p, "rejectionReason", req.reason)]
  IN  /\ req.op = "verify"
      /\ req.pc = "find"
      /\ reqs' = [reqs EXCEPT ![r] =
            IF ~found THEN Answered(req, 404)
            ELSE IF ~VerifyPrecondition(shipment) THEN Answered(req, 400)
            ELSE [pc |-> IF req.verified THEN "addTimelineEntry" ELSE "save",
                  mem |-> mem,
                  modified |-> IF req.verified THEN {"payment.status", "status"}
                                               ELSE {"payment.status"},
                  pushed |-> IF req.verified THEN <<"awaiting_pickup">> ELSE <<>>,
                  writes |-> 0, raced |-> Racing(r), sent |-> <<>>, code |-> 0]
                 @@ req]
      /\ UNCHANGED <<db, res, rates, call>>

\* await shipment.addTimelineEntry(...): the save inside it.
VerifyAddTimelineEntry(r) ==
  LET req == reqs[r]
  IN  /\ req.op = "verify"
      /\ req.pc = "addTimelineEntry"
      /\ db' = [db EXCEPT ![req.id] = UpdateOne(@, req.mem, req.modified, req.pushed)]
      /\ reqs' = [reqs EXCEPT ![r] = Saved(req, "save")]
      /\ UNCHANGED <<res, rates, call>>

\* await shipment.save()
VerifySave(r) ==
  LET req == reqs[r]
  IN  /\ req.op = "verify"
      /\ req.pc = "save"
      /\ db' = [db EXCEPT ![req.id] = UpdateOne(@, req.mem, req.modified, req.pushed)]
      /\ reqs' = [reqs EXCEPT ![r] = Saved(req, "notify")]
      /\ UNCHANGED <<res, rates, call>>

\* Lines 94-131: the notification, the email, the broadcast, the response.
VerifyNotify(r) ==
  LET req == reqs[r]
      ntype == IF req.verified THEN "payment_confirmed" ELSE "payment_rejected"
  IN  /\ req.op = "verify"
      /\ req.pc = "notify"
      /\ reqs' = [reqs EXCEPT ![r] =
            [req EXCEPT !.pc = "done",
                        !.sent = EffectsSent(req.mem.userId, ntype),
                        !.code = PaymentSideEffects(req.mem.userId, ntype)]]
      /\ UNCHANGED <<db, res, rates, call>>

ReceiveRefund(r) ==
  /\ reqs[r].op = "none"
  /\ \E reason \in {"damaged", "lost"}, amount \in AmountInputs :
       reqs' = [reqs EXCEPT ![r] =
                  [op |-> "refund", pc |-> "find", id |-> 1, verified |-> FALSE,
                   reason |-> reason, amount |-> amount]]
  /\ UNCHANGED <<db, res, rates, call>>

\* processRefund, lines 140-160: findById, the three checks, the
\* assignments.
RefundFind(r) ==
  LET req == reqs[r]
      found == req.id \in DOMAIN db
      shipment == db[req.id]
      refundAmount == IF req.amount \in {NoAmount, 0} THEN shipment.cost.total
                      ELSE req.amount
      p == SetField(SetField(SetField(SetField(SetField(shipment.payment,
             "refunded", TRUE), "refundedAt", "now"), "refundedBy", "admin"),
             "refundReason", req.reason), "refundAmount", refundAmount)
  IN  /\ req.op = "refund"
      /\ req.pc = "find"
      /\ reqs' = [reqs EXCEPT ![r] =
            IF ~found THEN Answered(req, 404)
            ELSE IF ~RefundStatusOk(shipment) THEN Answered(req, 400)
            ELSE IF AlreadyRefunded(shipment) THEN Answered(req, 400)
            ELSE [pc |-> "save",
                  mem |-> [shipment EXCEPT !.payment = p, !.status = "cancelled"],
                  modified |-> {"payment.refundReason", "status"},
                  pushed |-> <<>>,
                  writes |-> 0, raced |-> Racing(r), sent |-> <<>>, code |-> 0]
                 @@ req]
      /\ UNCHANGED <<db, res, rates, call>>

\* await shipment.save(), then the push of addTimelineEntry in memory.
RefundSave(r) ==
  LET req == reqs[r]
      saved == Saved(req, "addTimelineEntry")
  IN  /\ req.op = "refund"
      /\ req.pc = "save"
      /\ db' = [db EXCEPT ![req.id] = UpdateOne(@, req.mem, req.modified, req.pushed)]
      /\ reqs' = [reqs EXCEPT ![r] =
            [saved EXCEPT !.mem.timeline = Append(@, "cancelled"),
                          !.pushed = <<"cancelled">>]]
      /\ UNCHANGED <<res, rates, call>>

\* await shipment.addTimelineEntry('cancelled', ...): the save inside it.
RefundAddTimelineEntry(r) ==
  LET req == reqs[r]
  IN  /\ req.op = "refund"
      /\ req.pc = "addTimelineEntry"
      /\ db' = [db EXCEPT ![req.id] = UpdateOne(@, req.mem, req.modified, req.pushed)]
      /\ reqs' = [reqs EXCEPT ![r] = Saved(req, "notify")]
      /\ UNCHANGED <<res, rates, call>>

\* Lines 171-209: the notification, the email, the broadcast, the response.
RefundNotify(r) ==
  LET req == reqs[r]
  IN  /\ req.op = "refund"
      /\ req.pc = "notify"
      /\ reqs' = [reqs EXCEPT ![r] =
            [req EXCEPT !.pc = "done",
                        !.sent = EffectsSent(req.mem.userId, "payment_refunded"),
                        !.code = PaymentSideEffects(req.mem.userId, "payment_refunded")]]
      /\ UNCHANGED <<db, res, rates, call>>

\* A shipment whose payment an admin has verified.
CompletedShipment(userId, tn) ==
  [AwaitingShipment(userId, tn) EXCEPT
     !.payment.status = "completed",
     !.status = "awaiting_pickup",
     !.timeline = <<"pending", "awaiting_pickup">>]

InitRequests ==
  /\ rates = DefaultRates
  /\ \E userId \in Requesters, tn \in TrackingNumbers :
       \/ db = Put(EmptyDb, 1, AwaitingShipment(userId, tn))
       \/ db = Put(EmptyDb, 1, CompletedShipment(userId, tn))
  /\ res = NoResponse
  /\ call = NoCall
  /\ reqs = NoRequests

NextRequests ==
  \E r \in Requests :
    \/ ReceiveVerify(r)
    \/ VerifyFind(r)
    \/ VerifyAddTimelineEntry(r)
    \/ VerifySave(r)
    \/ VerifyNotify(r)
    \/ ReceiveRefund(r)
    \/ RefundFind(r)
    \/ RefundSave(r)
    \/ RefundAddTimelineEntry(r)
    \/ RefundNotify(r)

SpecRequests == InitRequests /\ [][NextRequests]_vars

(***************************************************************************)
(* Properties.                                                             *)
(***************************************************************************)
Target == res'.id
IsPaymentRequest(op) == op \in {"initialize", "verify", "reject", "refund"}

\* C1: a verify request (verified or not) on a shipment whose payment.status
\* is not awaiting_verification is answered 400 and changes nothing of the
\* stored shipment (payment sub-record, status and timeline included).
C1_VerifyRejectedOutsideAwaiting ==
  [][(/\ res'.op \in {"verify", "reject"}
      /\ Target \in DOMAIN db
      /\ db[Target].payment.status # "awaiting_verification")
     => (res'.code = 400 /\ ~res'.saved /\ db' = db)]_vars

C1_Witness ==
  /\ res.op \in {"verify", "reject"}
  /\ res.code = 400
  /\ res.id \in DOMAIN db
  /\ db[res.id].payment.status = "pending"
  /\ db[res.id].timeline = <<"pending">>

\* C2: a verify request with verified=true on a shipment awaiting
\* verification leaves payment.status = completed and shipment.status =
\* awaiting_pickup, and the timeline is the old one with exactly one entry,
\* awaiting_pickup, appended.
C2_VerifyCompletes ==
  [][(/\ res'.op = "verify"
      /\ Target \in DOMAIN db
      /\ db[Target].payment.status = "awaiting_verification")
     => (/\ db'[Target].payment.status = "completed"
         /\ db'[Target].status = "awaiting_pickup"
         /\ db'[Target].timeline = Append(db[Target].timeline, "awaiting_pickup"))]_vars

C2_Witness ==
  /\ res.op = "verify"
  /\ res.saved
  /\ db[res.id].payment.status = "completed"
  /\ db[res.id].status = "awaiting_pickup"
  /\ db[res.id].timeline = <<"pending", "awaiting_pickup">>

\* C3: a payment request (initialize, verify, refund) changes payment.status
\* of a shipment only along pending -> awaiting_verification,
\* awaiting_verification -> completed, awaiting_verification -> failed and
\* completed -> refunded; from failed and refunded it changes it never.
PaymentEdges ==
  {<<"pending", "awaiting_verification">>,
   <<"awaiting_verification", "completed">>,
   <<"awaiting_verification", "failed">>,
   <<"completed", "refunded">>}

C3_PaymentEdgesOnly ==
  [][IsPaymentRequest(res'.op)
     => \A id \in DOMAIN db :
          \/ db'[id].payment.status = db[id].payment.status
          \/ <<db[id].payment.status, db'[id].payment.status>> \in PaymentEdges]_vars

\* A rejected payment on which a later initialize was refused as already
\* initialized.
C3_Witness ==
  /\ res.op = "initialize"
  /\ res.code = 400
  /\ res.id \in DOMAIN db
  /\ db[res.id].payment.status = "failed"

\* C4: a refund request on a shipment that was already refunded (its stored
\* payment carries the refund reason) saves nothing and changes nothing: a
\* payment is refunded at most once.
C4_SecondRefundRejected ==
  [][(/\ res'.op = "refund"
      /\ Target \in DOMAIN db
      /\ db[Target].payment.refundReason # Undefined)
     => (~res'.saved /\ db' = db)]_vars

\* A second refund of the same shipment went through: the timeline ends with
\* two cancelled entries.
C4_RefundedTwice ==
  /\ res.op = "refund"
  /\ res.saved
  /\ Len(db[res.id].timeline) >= 2
  /\ db[res.id].timeline[Len(db[res.id].timeline)] = "cancelled"
  /\ db[res.id].timeline[Len(db[res.id].timeline) - 1] = "cancelled"

\* C5: an initialize request by the owner (or on a guest shipment) with
\* non-empty account and bank names, on a costed shipment whose payment is
\* pending, leaves the stored payment awaiting_verification with method
\* bank_transfer and amount = cost.total.
C5_InitializeStoresAwaiting ==
  [][(/\ res'.op = "initialize"
      /\ Target \in DOMAIN db
      /\ db[Target].payment.status = "pending"
      /\ db[Target].cost # NoCost
      /\ res'.code # 403)
     => (/\ db'[Target].payment.status = "awaiting_verification"
         /\ "method" \in DOMAIN db'[Target].payment
         /\ "amount" \in DOMAIN db'[Target].payment)]_vars

\* An initialize request on a created, costed shipment with a pending payment
\* was answered 400 and stored nothing.
C5_InitializeRefused ==
  /\ res.op = "initialize"
  /\ res.code = 400
  /\ ~res.saved
  /\ db[res.id].payment.status = "pending"
  /\ db[res.id].cost # NoCost
  /\ db[res.id].timeline = <<"pending">>

\* C6: after a refund that was saved, the stored payment.status is refunded.
C6_RefundSetsRefunded ==
  (res.op = "refund" /\ res.saved) => db[res.id].payment.status = "refunded"

\* A verified payment was refunded and its stored status is still completed.
C6_RefundedStaysCompleted ==
  /\ res.op = "refund"
  /\ res.saved
  /\ db[res.id].timeline = <<"pending", "awaiting_pickup", "cancelled">>
  /\ db[res.id].payment.status = "completed"

\* C7: after a refund that was saved, the stored shipment has
\* payment.refunded = true and a refundAmount, status cancelled and cancelled
\* as its last timeline entry.
C7_RefundEffect ==
  (res.op = "refund" /\ res.saved)
  => /\ Truthy(db[res.id].payment, "refunded")
     /\ "refundAmount" \in DOMAIN db[res.id].payment
     /\ db[res.id].status = "cancelled"
     /\ db[res.id].timeline # <<>>
     /\ db[res.id].timeline[Len(db[res.id].timeline)] = "cancelled"

\* A refund was saved with its reason, the shipment is cancelled, and the
\* stored payment has neither the refunded flag nor a refundAmount.
C7_RefundFlagNotStored ==
  /\ res.op = "refund"
  /\ res.saved
  /\ db[res.id].status = "cancelled"
  /\ db[res.id].payment.refundReason = "damaged"
  /\ ~Truthy(db[res.id].payment, "refunded")
  /\ "refundAmount" \notin DOMAIN db[res.id].payment

\* C8: a shipment whose status is cancelled keeps that status in every later
\* request.
C8_CancelledIsTerminal ==
  [][\A id \in DOMAIN db :
       db[id].status = "cancelled" => db'[id].status = "cancelled"]_vars

\* An admin status update moved a refunded, cancelled shipment to in_transit.
C8_CancelledMovedOn ==
  /\ res.op = "updateStatus"
  /\ res.saved
  /\ db[res.id].status = "in_transit"
  /\ db[res.id].payment.refundReason # Undefined
  /\ \E i \in 1..Len(db[res.id].timeline) : db[res.id].timeline[i] = "cancelled"

\* C9: a verify request with verified=false on a shipment awaiting
\* verification leaves payment.status = failed with the rejection reason in
\* the stored payment, and shipment.status and the timeline as they were.
C9_RejectEffect ==
  [][(/\ res'.op = "reject"
      /\ Target \in DOMAIN db
      /\ db[Target].payment.status = "awaiting_verification")
     => (/\ db'[Target].payment.status = "failed"
         /\ "rejectionReason" \in DOMAIN db'[Target].payment
         /\ db'[Target].status = db[Target].status
         /\ db'[Target].timeline = db[Target].timeline)]_vars

\* A rejection was saved: the payment is failed, the shipment and its
\* timeline are as they were, and the stored payment has no rejectionReason.
C9_RejectionReasonNotStored ==
  /\ res.op = "reject"
  /\ res.saved
  /\ db[res.id].payment.status = "failed"
  /\ db[res.id].status = "pending"
  /\ db[res.id].timeline = <<"pending">>
  /\ "rejectionReason" \notin DOMAIN db[res.id].payment

\* C10: a stored draft has no trackingNumber.
C10_DraftHasNoTrackingNumber ==
  \A id \in DOMAIN db : db[id].isDraft => db[id].trackingNumber = NoTracking

\* A draft save on the id of a created shipment turned it into a draft that
\* keeps its trackingNumber.
C10_CreatedShipmentBecameDraft ==
  /\ res.op = "saveDraft"
  /\ res.saved
  /\ db[res.id].isDraft
  /\ db[res.id].trackingNumber # NoTracking
  /\ db[res.id].timeline = <<"pending">>

\* C11: a stored shipment that has a trackingNumber keeps that trackingNumber
\* in every later request.
C11_TrackingNumberKept ==
  [][\A id \in DOMAIN db :
       db[id].trackingNumber # NoTracking
       => db'[id].trackingNumber = db[id].trackingNumber]_vars

\* A draft save replaced the generated trackingNumber of a created shipment
\* by the one in its formData.
C11_TrackingNumberReplaced ==
  /\ res.op = "saveDraft"
  /\ res.saved
  /\ db[res.id].timeline = <<"pending">>
  /\ db[res.id].trackingNumber = ClientTracking

\* C12: a stored non-draft international shipment has different sender and
\* recipient countries, and a stored non-draft local shipment has the same
\* sender and recipient country.
C12_TypeMatchesCountries ==
  \A id \in DOMAIN db :
    ~db[id].isDraft
    => IF db[id].type = "international"
         THEN db[id].sender # db[id].recipient
         ELSE db[id].sender = db[id].recipient

\* A sender update left a local shipment with a sender country that is not
\* its recipient country.
C12_LocalAcrossCountries ==
  /\ res.op = "updateSender"
  /\ res.saved
  /\ ~db[res.id].isDraft
  /\ db[res.id].type = "local"
  /\ db[res.id].sender # db[res.id].recipient

\* C13: whatever is stored, a create request for an international shipment
\* whose sender and recipient are in the same country, or for a local
\* shipment whose sender and recipient are in different countries, is
\* answered 400 and stores nothing; validateAddresses lets every other
\* request through.
C13_CreateChecksAddresses ==
  \A user \in Requesters, id \in ShipmentIds \ DOMAIN db, b \in AddressedBodyInputs,
     tn \in TrackingNumbers :
    LET r == HandleCreateShipment(db, user, id, b, tn)
        same == Uppercase(b.sender) = Uppercase(b.recipient)
        mismatch == \/ b.type = "international" /\ same
                    \/ b.type = "local" /\ ~same
    IN  /\ mismatch => (r.code = 400 /\ ~r.saved /\ r.db = db)
        /\ ~mismatch => ~ValidateAddressesThrows(b.type, b.sender, b.recipient)

\* A create request stored an international shipment whose sender and
\* recipient are in the same country.
C13_SameCountryAccepted ==
  /\ res.op = "create"
  /\ res.code = 201
  /\ db[res.id].type = "international"
  /\ db[res.id].sender = db[res.id].recipient

\* C14: an insurance update (the field updates all have its shape) sent by
\* anyone but the owner to a non-draft shipment that has an owner leaves the
\* stored shipments as they were.
C14_FieldUpdateByOwnerOnly ==
  [][\A user \in Requesters, id \in DOMAIN db, insurance \in InsuranceInputs,
        tn \in TrackingNumbers :
       (/\ res'.op = "updateField"
        /\ res'.id = id
        /\ ~db[id].isDraft
        /\ db[id].userId # NoUser
        /\ db[id].userId # user
        /\ db' = HandleUpdateInsurance(db, user, id, insurance, tn).db)
       => db' = db]_vars

\* A field update changed the insurance of a non-draft shipment that has an
\* owner; the handler never looks at who sent it.
C14_OwnedShipmentUpdated ==
  /\ res.op = "updateField"
  /\ res.saved
  /\ ~db[res.id].isDraft
  /\ db[res.id].userId # NoUser
  /\ db[res.id].insurance = "basic"
  /\ db[res.id].cost.insurance = 0
  /\ \A user \in Requesters :
       HandleUpdateInsurance(db, user, res.id, "none", 1).db
         = HandleUpdateInsurance(db, NoUser, res.id, "none", 1).db

\* The stages of a shipment in their order; cancelled is none of them.
StageOrder ==
  <<"pending", "awaiting_pickup", "picked_up", "in_transit",
    "out_for_delivery", "delivered">>

Stage(status) == CHOOSE i \in 1..Len(StageOrder) : StageOrder[i] = status

IsStage(status) == \E i \in 1..Len(StageOrder) : StageOrder[i] = status

\* C15: no request moves the status of a stored shipment from a stage to an
\* earlier stage of the order pending, awaiting_pickup, picked_up,
\* in_transit, out_for_delivery, delivered.
C15_StatusNeverBackward ==
  [][\A id \in DOMAIN db :
       (IsStage(db[id].status) /\ IsStage(db'[id].status))
       => Stage(db'[id].status) >= Stage(db[id].status)]_vars

\* An admin status update took a shipment that was in transit back to
\* pending.
C15_BackToPending ==
  /\ res.op = "updateStatus"
  /\ res.saved
  /\ db[res.id].status = "pending"
  /\ db[res.id].timeline = <<"pending", "in_transit", "pending">>

\* s is a prefix of t.
IsPrefix(s, t) == Len(s) <= Len(t) /\ SubSeq(t, 1, Len(s)) = s

\* C16: in every request, the timeline a stored shipment had before is a
\* prefix of the timeline it has after.
C16_TimelineAppendOnly ==
  [][\A id \in DOMAIN db : IsPrefix(db[id].timeline, db'[id].timeline)]_vars

\* A draft save emptied the timeline of a shipment that was created and has
\* its tracking number.
C16_TimelineErased ==
  /\ res.op = "saveDraft"
  /\ res.saved
  /\ db[res.id].trackingNumber \in TrackingNumbers
  /\ db[res.id].cost # NoCost
  /\ db[res.id].timeline = <<>>

\* C17: the cost calculateShippingCost returns has total = baseAmount +
\* insurance + vat, where baseAmount is the rounded base cost, vat is
\* baseAmount times the VAT rate rounded to cents, and insurance is baseAmount
\* times the rate of the insurance type rounded to cents, 0 when the type is
\* none or absent.
C17_TotalIsSumOfRounded ==
  (call.fn = "calculateShippingCost" /\ call.done)
  => /\ call.out.total = call.out.baseAmount + call.out.insurance + call.out.vat
     /\ call.out.baseAmount = CalculateBaseShippingCost(call.type, call.packages)
     /\ call.out.vat = RoundDiv(call.out.baseAmount * rates.vat, 1000)
     /\ call.out.insurance =
          IF call.insurance \in {Undefined, "none"} THEN 0
          ELSE RoundDiv(call.out.baseAmount
                        * (IF call.insurance = "basic" THEN rates.basic
                           ELSE rates.premium), 1000)

\* A cost with insurance whose vat and insurance were both rounded.
C17_Witness ==
  /\ call.fn = "calculateShippingCost"
  /\ call.done
  /\ call.insurance = "basic"
  /\ call.out.insurance > 0
  /\ (call.out.baseAmount * rates.vat) % 1000 # 0
  /\ (call.out.baseAmount * rates.basic) % 1000 # 0

\* The sum, over the packages, of the larger of the weight and the
\* volumetric weight length * width * height / 5000 (times 5000).
RECURSIVE SumOfLargerWeights5000(_, _)
SumOfLargerWeights5000(packages, n) ==
  IF n = 0 THEN 0
  ELSE LET pkg == packages[n]
           volume == pkg.dimensions.length * pkg.dimensions.width
                     * pkg.dimensions.height
       IN  SumOfLargerWeights5000(packages, n - 1)
           + (IF pkg.weight * 5000 >= volume THEN pkg.weight * 5000 ELSE volume)

\* The number of packages with property `flag`.
CountOf(packages, flag) ==
  Cardinality({i \in DOMAIN packages : packages[i][flag]})

\* cost * (n/d)^k
RECURSIVE TimesPower(_, _, _, _)
TimesPower(cost, n, d, k) ==
  IF k = 0 THEN cost ELSE TimesPower(Times(cost, n, d), n, d, k - 1)

\* sum * baseRate[type] * (1.5 once if international) * 1.2^fragile *
\* 1.15^perishable * 1.3^hazardous, rounded to cents.
BaseCostFormula(type, packages) ==
  LET weighed == Fraction(SumOfLargerWeights5000(packages, Len(packages))
                            * (IF type = "international" THEN rates.international
                                                         ELSE rates.local),
                          5000)
      distance == IF type = "international" THEN Times(weighed, 3, 2) ELSE weighed
      fragile == TimesPower(distance, 6, 5, CountOf(packages, "isFragile"))
      perishable == TimesPower(fragile, 23, 20, CountOf(packages, "isPerishable"))
      hazardous == TimesPower(perishable, 13, 10, CountOf(packages, "isHazardous"))
  IN  ToFixed2(hazardous)

CeilHalf(n) == CHOOSE k \in 0..n : 2 * k >= n /\ \A j \in 0..n : 2 * j >= n => k <= j

\* pickupDate + deliveryDays as the specification states it.
EstimateTarget ==
  call.pickup
  + (IF call.type = "international" THEN 5 ELSE 2)
  + (IF Len(call.packages) > 1 THEN CeilHalf(Len(call.packages)) ELSE 0)
  + (IF \E i \in DOMAIN call.packages :
          \/ call.packages[i].isFragile
          \/ call.packages[i].isPerishable
          \/ call.packages[i].isHazardous
       THEN 1 ELSE 0)

EstimateIsFirstWeekday ==
  (call.fn = "estimateDeliveryDate" /\ call.done) =>
    /\ call.out >= EstimateTarget
    /\ call.out <= EstimateTarget + 2
    /\ call.out % 7 \notin {0, 6}
    /\ \A day \in EstimateTarget..(call.out - 1) : day % 7 \in {0, 6}

\* C19: estimateDeliveryDate returns the first day that is not a Saturday
\* or Sunday at or after pickupDate + deliveryDays, deliveryDays = (5 if
\* international else 2) + (ceil(n/2) if n > 1) + (1 if any package is
\* fragile, perishable or hazardous); the result is at most 2 days after
\* pickupDate + deliveryDays, and every call returns (the weekend loop ends).
C19_EstimateIsFirstWeekday ==
  /\ []EstimateIsFirstWeekday
  /\ (call.fn = "estimateDeliveryDate")
       ~> (call.fn = "estimateDeliveryDate" /\ call.done)

\* An international shipment of three packages, one of them fragile, picked
\* up on a Friday: 5 + 2 + 1 days later is a Saturday, the call returned the
\* Monday after it.
C19_Witness ==
  /\ call.fn = "estimateDeliveryDate"
  /\ call.done
  /\ call.type = "international"
  /\ call.packages = <<Parcel, [Light EXCEPT !.isFragile = TRUE], Parcel>>
  /\ call.pickup = 5
  /\ call.out = 15

\* The three rules as the specification states them, for the call in hand.
PickupInPast == call.date < call.now
PickupTooFar == call.date - call.now > 30 * TicksPerDay
PickupOnWeekend == (call.date \div TicksPerDay) % 7 \in {0, 6}

\* C20: validatePickupDate rejects with a 400 error every date before the
\* current time, every date more than 30 days after it and every Saturday
\* or Sunday, and accepts every other date; of several violated rules it
\* reports the first in the order past, more than 30 days, weekend.
C20_PickupDateRules ==
  (call.fn = "validatePickupDate" /\ call.done) =>
    /\ call.out.threw <=> (PickupInPast \/ PickupTooFar \/ PickupOnWeekend)
    /\ call.out.threw => call.out.statusCode = 400
    /\ PickupInPast => call.out.message = "Pickup date cannot be in the past"
    /\ (~PickupInPast /\ PickupTooFar) =>
         call.out.message = "Pickup date cannot be more than 30 days in the future"
    /\ (~PickupInPast /\ ~PickupTooFar /\ PickupOnWeekend) =>
         call.out.message = "Pickup is not available on weekends"

\* A Saturday more than 30 days ahead was rejected as too far ahead.
C20_Witness ==
  /\ call.fn = "validatePickupDate"
  /\ call.done
  /\ PickupTooFar
  /\ PickupOnWeekend
  /\ call.out = AppError("Pickup date cannot be more than 30 days in the future", 400)

\* The first constraint a package violates, in the order the specification
\* lists them (weight ceiling 5 kg if type = documents, else 70 kg); "none"
\* when the package is within bounds.
FirstViolation(pkg) ==
  LET ceiling == IF pkg.type = "documents" THEN 5 ELSE 70
      sides == {pkg.dimensions.length, pkg.dimensions.width, pkg.dimensions.height}
  IN  IF ~(pkg.weight > 0) THEN "Weight must be greater than 0"
      ELSE IF \E side \in sides : ~(side > 0) THEN "Invalid dimensions"
      ELSE IF \E side \in sides : side > 150 THEN "Maximum dimension allowed is"
      ELSE IF pkg.weight > ceiling THEN "Maximum weight allowed is"
      ELSE "none"

\* C21: validatePackages rejects a missing or empty list and a list of more
\* than 10 packages; otherwise it rejects at the lowest-numbered package
\* that violates a bound, reporting its 1-based number and only its first
\* violated constraint in the order weight <= 0, non-positive dimension,
\* dimension > 150, weight above the ceiling; it accepts exactly the lists
\* whose packages are all within bounds.
C21_FirstViolationReported ==
  (call.fn = "validatePackages" /\ call.done) =>
    LET n == Len(call.packages)
        bad == {i \in 1..n : FirstViolation(call.packages[i]) # "none"}
    IN  /\ call.out.threw => call.out.statusCode = 400
        /\ (~call.present \/ n = 0) =>
             call.out.threw /\ call.out.message[2] = "At least one package is required"
        /\ n > 10 =>
             call.out.threw
             /\ call.out.message[2] = "Maximum 10 packages allowed per shipment"
        /\ (call.present /\ n \in 1..10) =>
             /\ call.out.threw <=> bad # {}
             /\ bad # {} =>
                  /\ call.out.message[1] \in bad
                  /\ \A i \in bad : call.out.message[1] <= i
                  /\ call.out.message[2] =
                       FirstViolation(call.packages[call.out.message[1]])

\* Of two offending packages the first was reported, and of its two
\* violated constraints (a zero side and a side over 150) the earlier one.
C21_Witness ==
  /\ call.fn = "validatePackages"
  /\ call.done
  /\ call.packages = <<Checked("parcel", Undefined, 10, 50, 0, 151),
                       Checked("parcel", Undefined, 71, 50, 40, 30)>>
  /\ call.out = AppError(<<1, "Invalid dimensions", 0>>, 400)

\* C22: through the cost endpoint, where the package type is carried in
\* packageType, a request is rejected exactly when one of its packages is
\* of type documents and weighs more than 5 kg, or weighs more than 70 kg.
C22_DocumentsCeiling ==
  (call.fn = "calculateCost" /\ call.done) =>
    (call.out.statusCode = 400 <=>
       \E i \in DOMAIN call.packages :
         LET pkg == call.packages[i]
         IN  \/ pkg.packageType = "documents" /\ pkg.weight > 5
             \/ pkg.weight > 70)

\* A documents package of 6 kg was priced instead of rejected.
C22_HeavyDocumentsAccepted ==
  /\ call.fn = "calculateCost"
  /\ call.done
  /\ call.packages = <<Submitted("documents", 6)>>
  /\ call.out.statusCode = 200

\* Request r has passed its checks and made all its saves.
Written(r) == reqs[r].pc \in {"notify", "done"} /\ "mem" \in DOMAIN reqs[r]

\* Both requests of kind op passed their checks before either wrote, and
\* both have made all their saves.
BothRaced(op) ==
  /\ \A r \in Requests : reqs[r].op = op /\ Written(r)
  /\ \E r \in Requests : reqs[r].raced

Occurrences(seq, x) == Cardinality({i \in DOMAIN seq : seq[i] = x})

\* C23: two verify requests on one awaiting_verification shipment that both
\* read it before either writes both pass the check and both write: two
\* verified ones leave two awaiting_pickup timeline entries, a verified and
\* a rejecting one leave the shipment awaiting_pickup with the payment
\* status of whichever wrote last, failed included.
C23_VerifyRace ==
  BothRaced("verify") =>
    LET n == Cardinality({r \in Requests : reqs[r].verified})
    IN  /\ \A r \in Requests : reqs[r].writes >= 1
        /\ Occurrences(db[1].timeline, "awaiting_pickup") = n
        /\ n = 2 => db[1].payment.status = "completed"
        /\ n = 1 => /\ db[1].status = "awaiting_pickup"
                    /\ db[1].payment.status \in {"completed", "failed"}
        /\ n = 0 => db[1].payment.status = "failed"

\* One request verified, the other rejected, the rejection was written
\* last: a failed payment on a shipment awaiting pickup.
C23_Witness ==
  /\ BothRaced("verify")
  /\ db[1].payment.status = "failed"
  /\ db[1].status = "awaiting_pickup"

\* C24: two refund requests on one completed shipment that both read it
\* before either writes are both carried out: two cancelled timeline
\* entries, two refund notifications, and the stored refund reason and
\* amount are those of one of the two requests.
C24_RefundRace ==
  (BothRaced("refund") /\ \A r \in Requests : reqs[r].pc = "done") =>
    /\ Occurrences(db[1].timeline, "cancelled") = 2
    /\ \A r \in Requests :
         /\ Len(reqs[r].sent) = 1
         /\ reqs[r].sent[1].kind = "notification"
    /\ \E r \in Requests :
         /\ db[1].payment.refundReason = reqs[r].reason
         /\ "refundAmount" \in DOMAIN db[1].payment
         /\ db[1].payment["refundAmount"] = reqs[r].mem.payment["refundAmount"]

\* Both refunds were written (two cancelled entries), neither produced a
\* notification and both were answered with an error.
C24_RefundedTwiceUnnotified ==
  /\ BothRaced("refund")
  /\ \A r \in Requests : reqs[r].pc = "done" /\ reqs[r].sent = <<>> /\ reqs[r].code >= 400
  /\ Occurrences(db[1].timeline, "cancelled") = 2

\* C25: a verify request that passed its precondition and persisted the new
\* payment status has emitted, when it ends, exactly one notification to
\* the shipment owner (payment_confirmed when verified, payment_rejected
\* otherwise) followed by a payment-update broadcast with the new payment
\* status; a verify request that was rejected has emitted nothing.
C25_VerifyNotifies ==
  \A r \in Requests :
    (reqs[r].op = "verify" /\ reqs[r].pc = "done") =>
      IF Written(r)
        THEN /\ Len(reqs[r].sent) = 2
             /\ reqs[r].sent[1] =
                  [kind |-> "notification", to |-> reqs[r].mem.userId,
                   type |-> IF reqs[r].verified THEN "payment_confirmed"
                                                ELSE "payment_rejected"]
             /\ reqs[r].sent[2].kind = "broadcast"
             /\ reqs[r].sent[2].status = reqs[r].mem.payment.status
        ELSE reqs[r].sent = <<>>

\* A verified request of a shipment with an owner ended with the
\* notification sent, no broadcast, and the answer 500.
C25_NotifiedWithoutBroadcast ==
  \E r \in Requests :
    /\ reqs[r].op = "verify"
    /\ reqs[r].pc = "done"
    /\ Written(r)
    /\ reqs[r].verified
    /\ reqs[r].mem.userId # NoUser
    /\ Len(reqs[r].sent) = 1
    /\ reqs[r].sent[1].type = "payment_confirmed"
    /\ reqs[r].code = 500

\* C26: in every persisted state, between the saves of a request included,
\* the status of a non-draft shipment with a non-empty timeline is the
\* status of its last timeline entry.
C26_StatusIsLastEntry ==
  \A id \in DOMAIN db :
    (~db[id].isDraft /\ db[id].timeline # <<>>) =>
      db[id].status = db[id].timeline[Len(db[id].timeline)]

\* Between the two saves of a refund: the shipment is stored cancelled and
\* its last timeline entry is still awaiting_pickup.
C26_CancelledBeforeEntry ==
  \E r \in Requests :
    /\ reqs[r].op = "refund"
    /\ reqs[r].pc = "addTimelineEntry"
    /\ db[1].status = "cancelled"
    /\ db[1].timeline = <<"pending", "awaiting_pickup">>

\* C27: an initialize, verify or refund request that is answered with an
\* error leaves the persisted shipments as they were before the request.
C27_ErrorLeavesRecord ==
  [][(IsPaymentRequest(res'.op) /\ res'.code >= 400) => db' = db]_vars

\* A verify request was answered 500 and the shipment it names is stored
\* with the payment completed.
C27_SavedThenFailed ==
  /\ res.op = "verify"
  /\ res.code = 500
  /\ res.saved
  /\ res.id \in DOMAIN db
  /\ db[res.id].payment.status = "completed"
  /\ db[res.id].status = "awaiting_pickup"

\* C28: a shipment's payment.status becomes completed only by a verify
\* request with verified = true (an admin route); no other request makes a
\* payment completed.
C28_CompletedOnlyByVerify ==
  [][\A id \in DOMAIN db' :
       (/\ db'[id].payment.status = "completed"
        /\ (id \in DOMAIN db => db[id].payment.status # "completed"))
       => res'.op = "verify"]_vars

\* A draft save left a shipment stored with a completed payment.
C28_CompletedByDraftSave ==
  /\ res.op = "saveDraft"
  /\ res.saved
  /\ res.id \in DOMAIN db
  /\ db[res.id].payment.status = "completed"

\* C29: the stored cost of a non-draft shipment is calculateShippingCost of
\* its current type, packages and insurance.
C29_CostIsCurrent ==
  \A id \in DOMAIN db :
    ~db[id].isDraft =>
      db[id].cost = CalculateShippingCost(db[id].type, db[id].packages,
                                          db[id].insurance)

\* A created shipment whose insurance was changed to basic still carries
\* the cost computed without insurance.
C29_StaleCost ==
  /\ res.op = "updateField"
  /\ res.saved
  /\ res.id \in DOMAIN db
  /\ ~db[res.id].isDraft
  /\ db[res.id].insurance = "basic"
  /\ db[res.id].cost.insurance = 0
  /\ db[res.id].cost.total > 0

\* C30: once a refund has been saved, the refund amount the request
\* recorded on the shipment is greater than 0 and at most cost.total.
C30_RefundWithinCost ==
  \A r \in Requests :
    (reqs[r].op = "refund" /\ Written(r)) =>
      /\ reqs[r].mem.payment["refundAmount"] > 0
      /\ reqs[r].mem.payment["refundAmount"] <= reqs[r].mem.cost.total

\* A refund of 200.00 on a shipment that cost 129.00 was saved: the amount
\* on the shipment the request returns is the one given, and the stored
\* payment has no refund amount.
C30_RefundAboveCost ==
  \E r \in Requests :
    /\ reqs[r].op = "refund"
    /\ Written(r)
    /\ reqs[r].amount = 20000
    /\ reqs[r].mem.payment["refundAmount"] = 20000
    /\ reqs[r].mem.cost.total = 12900
    /\ db[1].status = "cancelled"
    /\ "refundAmount" \notin DOMAIN db[1].payment

============================================================================
